---- MODULE Spec2Model ----
(***************************************************************************)
(* Model of the tool-call orchestration loop of Agent-Multitool-Demo       *)
(* (src/main.py) and of the tool implementations it dispatches to          *)
(* (src/tools.py).                                                         *)
(*                                                                         *)
(* Python strings are modelled as sequences: user input as a sequence of   *)
(* one-character strings (so that strip() and lower() are computed), tool  *)
(* results and model texts as sequences of tokens.  Python exceptions are  *)
(* modelled as values: every operator that models a function returns a     *)
(* record whose field exc is "none" or the class of the exception that     *)
(* leaves the function.                                                    *)
(***************************************************************************)
EXTENDS Integers, Sequences, FiniteSets, TLC

\* Bounds of the model.
MaxTurns == 1        \* user queries answered in one session
MaxDispatch == 2     \* tool-call requests dispatched in one session
MaxCodeExec == 3     \* the same, in the sessions of SpecCodeExec
MaxSaves == 3        \* the same, in the sessions of SpecSave
MaxSearches == 1     \* the same, in the sessions of SpecStartup

(***************************************************************************)
(* Strings of the user prompt                                              *)
(***************************************************************************)

\* str.strip(): drops leading and trailing whitespace.
Whitespace == {" ", "\t", "\n"}

RECURSIVE lstrip(_)
lstrip(s) ==
    IF s # <<>> /\ Head(s) \in Whitespace THEN lstrip(Tail(s)) ELSE s

RECURSIVE rstrip(_)
rstrip(s) ==
    IF s # <<>> /\ s[Len(s)] \in Whitespace
    THEN rstrip(SubSeq(s, 1, Len(s) - 1))
    ELSE s

strip(s) == rstrip(lstrip(s))

\* str.lower() on the letters the inputs of the model use.
lower_char(c) ==
    CASE c = "Q" -> "q"
      [] c = "U" -> "u"
      [] c = "I" -> "i"
      [] c = "T" -> "t"
      [] c = "E" -> "e"
      [] c = "X" -> "x"
      [] c = "H" -> "h"
      [] OTHER -> c

lower(s) == [i \in 1..Len(s) |-> lower_char(s[i])]

\* The set literal {"quit", "exit"} of the exit test.
EXIT_WORDS == { <<"q", "u", "i", "t">>, <<"e", "x", "i", "t">> }

\* An exit test that compares the input as typed, without lower().
is_exit_input_case_sensitive(user_input) ==
    user_input = <<>> \/ user_input \in EXIT_WORDS

\* The condition of the break at the prompt, on the stripped input.
is_exit_input(user_input) ==
    user_input = <<>> \/ lower(user_input) \in EXIT_WORDS

\* Lines the user may type at the prompt (before strip()).
RawInputs ==
    { <<>>,
      <<" ", "\t">>,
      <<"q", "u", "i", "t">>,
      <<" ", "E", "x", "I", "T", "\n">>,
      <<"q", "u", "i", "t", " ", "x">>,
      <<" ", "q", "u", "i", "t", " ", "x", "\n">> }

(***************************************************************************)
(* main.py: the model identifier (module level) and select_working_model   *)
(***************************************************************************)

\* The identifiers main.py names, as sequences of characters.
QWEN3_8B == <<"q", "w", "e", "n", "3", ":", "8", "b">>
DEEPSEEK_R1_8B ==
    <<"d", "e", "e", "p", "s", "e", "e", "k", "-", "r", "1", ":", "8", "b">>
QWEN2_5 == <<"q", "w", "e", "n", "2", ".", "5">>
LLAMA3_1_8B == <<"l", "l", "a", "m", "a", "3", ".", "1", ":", "8", "b">>

\* The default of os.environ.get("MODEL", ...) and of the fallback.
DEFAULT_MODEL == QWEN3_8B

Digits == {"0", "1", "2", "3", "4", "5", "6", "7", "8", "9"}

\* str.isdigit(): at least one character, and digits only.
isdigit(name) == name # <<>> /\ \A i \in 1..Len(name) : name[i] \in Digits

\* The characters _looks_like_model_name refuses.
FORBIDDEN_CHARS == {"/", "\\", " "}

\* A heuristic that lets identifiers made of digits through.
_looks_like_model_name_allows_digits(name) ==
    /\ name # <<>>
    /\ ~\E i \in 1..Len(name) : name[i] \in FORBIDDEN_CHARS

\* _looks_like_model_name(name).
_looks_like_model_name(name) ==
    /\ name # <<>>
    /\ ~isdigit(name)
    /\ ~\E i \in 1..Len(name) : name[i] \in FORBIDDEN_CHARS

\* The environment variable MODEL: unset, or set to value.
UNSET == [set |-> FALSE, value |-> <<>>]
EnvSet(value) == [set |-> TRUE, value |-> value]

\* What the process may find in the variable.
EnvironValues ==
    { UNSET,
      EnvSet(<<>>),
      EnvSet(<<"1", "2">>),
      EnvSet(<<"a", "/", "b">>),
      EnvSet(<<"a", "\\", "b">>),
      EnvSet(<<"a", " ", "b">>),
      EnvSet(<<"7", "b">>),
      EnvSet(QWEN2_5) }

\* os.environ.get("MODEL", "qwen3:8b").
os_environ_get(env) == IF env.set THEN env.value ELSE DEFAULT_MODEL

\* The list candidates of main().
candidates_of(model) ==
    <<model, QWEN3_8B, DEEPSEEK_R1_8B, QWEN2_5, LLAMA3_1_8B>>

\* The names of the probes made so far: the list seen.
seen_of(log) == { log[i].name : i \in 1..Len(log) }

\* "if not c or c in seen: continue" without the test on seen.
skips_candidate_empty_only(c, log) == c = <<>>

\* "if not c or c in seen: continue".
skips_candidate(c, log) == c = <<>> \/ c \in seen_of(log)

(***************************************************************************)
(* Exceptions                                                              *)
(***************************************************************************)

\* Classes that derive from BaseException but not from Exception.
BaseOnly == {"SystemExit", "KeyboardInterrupt"}

\* "except Exception" catches cls.
caught_by_except_Exception(cls) == cls \notin BaseOnly

(***************************************************************************)
(* tools.py: the execution environment of code_exec                        *)
(***************************************************************************)

\* Names a namespace of the model can hold, and the values bound to them.
EnvNames == {"pd", "plt", "__builtins__", "x", "y"}
UNBOUND == "<unbound>"

\* _EXEC_GLOBALS = {} at import.
EMPTY_GLOBALS == [n \in EnvNames |-> UNBOUND]

\* "not _EXEC_GLOBALS": the dict is empty.
is_empty_dict(env) == \A n \in EnvNames : env[n] = UNBOUND

\* An _ensure_exec_env that creates the namespace anew on every call.
_ensure_exec_env_fresh(env) ==
    [EMPTY_GLOBALS EXCEPT !["pd"] = "<module>", !["plt"] = "<module>"]

\* _ensure_exec_env(): (re)creates the namespace only while it is empty.
_ensure_exec_env(env) ==
    IF is_empty_dict(env)
    THEN [EMPTY_GLOBALS EXCEPT !["pd"] = "<module>", !["plt"] = "<module>"]
    ELSE env

(***************************************************************************)
(* Submitted code is a sequence of statements:                             *)
(*   [op |-> "bind",  var, val]   var = val                                *)
(*   [op |-> "print", var]        print(var), NameError when var unbound   *)
(*   [op |-> "raise", val]        raise val()        (val: exception class)*)
(* Statements run in order; the first exception ends the run.              *)
(***************************************************************************)
Bind(v, c) == [op |-> "bind", var |-> v, val |-> c]
PrintVar(v) == [op |-> "print", var |-> v, val |-> ""]
Raise(cls) == [op |-> "raise", var |-> "", val |-> cls]

\* One statement on a running state st = [env, out, exc].
exec_stmt(st, stmt) ==
    CASE stmt.op = "bind" ->
           [st EXCEPT !.env = [@ EXCEPT ![stmt.var] = stmt.val]]
      [] stmt.op = "print" ->
           IF st.env[stmt.var] = UNBOUND
           THEN [st EXCEPT !.exc = "NameError"]
           ELSE [st EXCEPT !.out = Append(@, st.env[stmt.var])]
      [] OTHER ->
           [st EXCEPT !.exc = stmt.val]

RECURSIVE exec_stmts(_, _)
exec_stmts(st, code) ==
    IF code = <<>> \/ st.exc # "none"
    THEN st
    ELSE exec_stmts(exec_stmt(st, Head(code)), Tail(code))

\* exec(code, globals, globals) under redirect_stdout: exec() first puts
\* __builtins__ into the globals, then runs the statements in that same dict.
exec(code, env) ==
    exec_stmts([env |-> [env EXCEPT !["__builtins__"] = "<module>"],
                out |-> <<>>,
                exc |-> "none"],
               code)

\* A code_exec that gives the environment back as it was before a run
\* that fails.
code_exec_rolls_back(code, env) ==
    LET env1 == _ensure_exec_env(env)
        r == exec(code, env1)
    IN  IF r.exc = "none"
        THEN [ret |-> r.out, env |-> r.env, exc |-> "none"]
        ELSE IF caught_by_except_Exception(r.exc)
        THEN [ret |-> r.out \o <<"Error:", r.exc, "<traceback>">>,
              env |-> env1,
              exc |-> "none"]
        ELSE [ret |-> <<>>, env |-> env1, exc |-> r.exc]

\* code_exec(code).  _sanitize_path_literals rewrites only quoted literals
\* that hold a backslash; the statements of the model hold none, so it
\* returns the code as given.
code_exec(code, env) ==
    LET env1 == _ensure_exec_env(env)
        r == exec(code, env1)
    IN  IF r.exc = "none"
        THEN [ret |-> r.out, env |-> r.env, exc |-> "none"]
        ELSE IF caught_by_except_Exception(r.exc)
        THEN [ret |-> r.out \o <<"Error:", r.exc, "<traceback>">>,
              env |-> r.env,
              exc |-> "none"]
        ELSE [ret |-> <<>>, env |-> r.env, exc |-> r.exc]

(***************************************************************************)
(* tools.py: the search tools and save_text_to_file                        *)
(***************************************************************************)

\* The providers are external: a call either returns text or raises.
\* What a provider does with a query: it returns a str, it raises, or it
\* returns an object that is not a str (run() of the langchain tools is
\* declared to return Any).
ProviderOutcomes == {"ok", "raise", "object"}

\* A value that is not a str is written with this mark in front.
NOT_STR == "<list>"
isinstance_str(value) == value = <<>> \/ value[1] # NOT_STR

\* str(value) of a value that is not a str: its printed form.
str(value) == <<"<repr of list>">> \o Tail(value)

\* engine.run(query), wiki.run(query).
run(header, query, outcome) ==
    CASE outcome = "ok" -> [ret |-> header \o <<query>>, exc |-> "none"]
      [] outcome = "object" ->
           [ret |-> <<NOT_STR>> \o header \o <<query>>, exc |-> "none"]
      [] OTHER -> [ret |-> <<>>, exc |-> "RuntimeError"]

search_web(query, outcome) == run(<<"<news>">>, query, outcome)

search_yf(query, outcome) ==
    run(<<"<news>", "site:finance.yahoo.com">>, query, outcome)

wikipedia_lookup(query, outcome) == run(<<"<wiki>">>, query, outcome)

\* The files the model can name, and the file system before the session.
DEFAULT_FILENAME == "research_output.txt"
FileNames == {DEFAULT_FILENAME, "notes.txt"}
NO_FILE == [exists |-> FALSE, content |-> <<>>]
NoFiles == [f \in FileNames |-> NO_FILE]

\* A save_text_to_file that opens the file with "w".
save_text_to_file_overwrites(data, filename, fs, outcome) ==
    IF outcome # "raise"
    THEN [ret |-> <<"Data successfully saved to", filename>>,
          fs |-> [fs EXCEPT ![filename] =
                     [exists |-> TRUE, content |-> <<data>>]],
          exc |-> "none"]
    ELSE [ret |-> <<>>, fs |-> fs, exc |-> "OSError"]

\* save_text_to_file(data, filename): open(filename, "a") creates the file
\* when absent and writes at its end; open() may raise OSError.
save_text_to_file(data, filename, fs, outcome) ==
    IF outcome # "raise"
    THEN [ret |-> <<"Data successfully saved to", filename>>,
          fs |-> [fs EXCEPT ![filename] =
                     [exists |-> TRUE, content |-> Append(@.content, data)]],
          exc |-> "none"]
    ELSE [ret |-> <<>>, fs |-> fs, exc |-> "OSError"]

(***************************************************************************)
(* tools.py: the registry                                                  *)
(***************************************************************************)

\* The "name" of each descriptor of TOOL_SPECS, in list order.
TOOL_SPECS ==
    <<"search_web", "search_yf", "wikipedia_lookup", "save_text_to_file",
      "code_exec">>

\* The keys of the dict TOOL_FUNCS.
TOOL_FUNCS ==
    {"search_web", "search_yf", "wikipedia_lookup", "save_text_to_file",
     "code_exec"}

\* A lookup that falls back on a tool for the names it does not know.
TOOL_FUNCS_get_with_default(name) ==
    IF name \in TOOL_FUNCS THEN name ELSE "search_web"

\* TOOL_FUNCS.get(name): the name of the function found, or "None".
TOOL_FUNCS_get(name) == IF name \in TOOL_FUNCS THEN name ELSE "None"

\* The parameters of each tool function (its def line): all of them, and
\* those without a default.
params_of(func) ==
    CASE func = "save_text_to_file" -> {"data", "filename"}
      [] func = "code_exec" -> {"code"}
      [] OTHER -> {"query"}

required_of(func) ==
    CASE func = "save_text_to_file" -> {"data"}
      [] func = "code_exec" -> {"code"}
      [] OTHER -> {"query"}

\* The "required" list of the TOOL_SPECS entry of a tool.
TOOL_SPECS_required(name) ==
    CASE name \in {"search_web", "search_yf", "wikipedia_lookup"} -> {"query"}
      [] name = "save_text_to_file" -> {"data"}
      [] name = "code_exec" -> {"code"}
      [] OTHER -> {}

(***************************************************************************)
(* main.py: execute_tool_call                                              *)
(*                                                                         *)
(* A tool-call request is a record                                         *)
(*   fn       "absent": no "function" key; "record": the key holds a       *)
(*            mapping                                                      *)
(*   has_name whether the mapping has the key "name";  name: its value     *)
(*   args     "absent": no "arguments" key; "map": the key holds a mapping *)
(*   keys     the keys of the arguments mapping, and under query, data,    *)
(*            filename, code the values of those that are present          *)
(***************************************************************************)

ERR_MALFORMED == <<"[ERROR] tool_call mal formada: falta 'name' o 'arguments'.">>
err_no_impl(name) == <<"[ERROR] No hay implementacion para la herramienta", name>>
err_executing(name, cls) == <<"[ERROR ejecutando", name, cls, "<traceback>">>
msg_executing(name) == <<" [.] Ejecutando tool:", name>>

\* A return that hands the result on as it is.
result_as_text_uncoerced(result) == result

\* "return str(result) if not isinstance(result, str) else result".
result_as_text(result) ==
    IF ~isinstance_str(result) THEN str(result) ELSE result

\* subscript_call that looks for the name only.
subscript_call_name_only(call) ==
    CASE call.fn = "absent" -> "KeyError"
      [] ~call.has_name -> "KeyError"
      [] OTHER -> "none"

\* The exception of  name = call["function"]["name"];
\*                   args = call["function"]["arguments"]   ("none": no exception).
subscript_call(call) ==
    CASE call.fn = "absent" -> "KeyError"
      [] ~call.has_name -> "KeyError"
      [] call.args = "absent" -> "KeyError"
      [] OTHER -> "none"

\* A binding that never fails, as of functions whose parameters all have
\* defaults and that take any keyword.
bind_arguments_never_fails(func, call) == "none"

\* A return that leaves the environment of code_exec prepared.
untouched_but_for_the_environment(ret, out, env, fs) ==
    [ret |-> ret, exc |-> "none", invoked |-> "none", out |-> out,
     env |-> _ensure_exec_env(env), fs |-> fs]

\* What execute_tool_call returns when it has called no tool: the error
\* string, with the environment and the files as they were.
untouched(ret, out, env, fs) ==
    [ret |-> ret, exc |-> "none", invoked |-> "none", out |-> out,
     env |-> env, fs |-> fs]

\* The exception of binding func(**args) to the parameters of func.
bind_arguments(func, call) ==
    CASE ~(call.keys \subseteq params_of(func)) -> "TypeError"
      [] ~(required_of(func) \subseteq call.keys) -> "TypeError"
      [] OTHER -> "none"

\* func(**args) once the arguments are bound: the body of the tool.
call_tool(func, call, env, fs, outcome) ==
    CASE func = "search_web" ->
           LET r == search_web(call.query, outcome)
           IN  [ret |-> r.ret, env |-> env, fs |-> fs, exc |-> r.exc]
      [] func = "search_yf" ->
           LET r == search_yf(call.query, outcome)
           IN  [ret |-> r.ret, env |-> env, fs |-> fs, exc |-> r.exc]
      [] func = "wikipedia_lookup" ->
           LET r == wikipedia_lookup(call.query, outcome)
           IN  [ret |-> r.ret, env |-> env, fs |-> fs, exc |-> r.exc]
      [] func = "save_text_to_file" ->
           LET r == save_text_to_file(
                        call.data,
                        IF "filename" \in call.keys THEN call.filename
                                                    ELSE DEFAULT_FILENAME,
                        fs, outcome)
           IN  [ret |-> r.ret, env |-> env, fs |-> r.fs, exc |-> r.exc]
      [] OTHER ->
           LET r == code_exec(call.code, env)
           IN  [ret |-> r.ret, env |-> r.env, fs |-> fs, exc |-> r.exc]

\* execute_tool_call(call): ret is the string returned, exc the exception
\* that leaves the function ("none" when it returns), invoked the tool
\* function whose body ran ("none" when no body ran), out the line the
\* function printed (<<>> when none), env and fs the execution environment
\* and the files after the call.
execute_tool_call(call, env, fs, outcome) ==
    LET e1 == subscript_call(call)
        func == TOOL_FUNCS_get(call.name)
        e2 == bind_arguments(func, call)
        r == call_tool(func, call, env, fs, outcome)
        said == msg_executing(call.name)
    IN  CASE e1 = "KeyError" -> untouched(ERR_MALFORMED, <<>>, env, fs)
          [] func = "None" -> untouched(err_no_impl(call.name), <<>>, env, fs)
          [] e2 # "none" ->
               untouched(err_executing(call.name, e2), said, env, fs)
          [] r.exc = "none" ->
               [ret |-> result_as_text(r.ret), exc |-> "none",
                invoked |-> func, out |-> said,
                env |-> r.env, fs |-> r.fs]
          [] caught_by_except_Exception(r.exc) ->
               [ret |-> err_executing(call.name, r.exc), exc |-> "none",
                invoked |-> func, out |-> said, env |-> r.env, fs |-> r.fs]
          [] OTHER ->
               [ret |-> <<>>, exc |-> r.exc, invoked |-> func, out |-> said,
                env |-> r.env, fs |-> r.fs]

(***************************************************************************)
(* Inputs of the model: the requests and responses the backend may send    *)
(***************************************************************************)

\* Programs the model may submit to code_exec.
Programs ==
    { <<Bind("x", "1")>>,
      <<PrintVar("x")>>,
      <<Bind("y", "1"), Raise("ValueError"), Bind("x", "2")>>,
      <<Raise("SystemExit")>>,
      <<Raise("KeyboardInterrupt")>> }

NoArgs ==
    [args |-> "map", keys |-> {}, query |-> "", data |-> "", filename |-> "",
     code |-> <<>>]

Request(name, a) ==
    [fn |-> "record", has_name |-> TRUE, name |-> name, args |-> a.args,
     keys |-> a.keys, query |-> a.query, data |-> a.data,
     filename |-> a.filename, code |-> a.code]

\* Requests that name a registered tool and pass a mapping of arguments.
RegisteredRequests ==
    { Request("search_web", [NoArgs EXCEPT !.keys = {"query"}, !.query = "q"]),
      Request("search_yf", [NoArgs EXCEPT !.keys = {"query"}, !.query = "q"]),
      Request("wikipedia_lookup", [NoArgs EXCEPT !.keys = {"query"}, !.query = "q"]),
      Request("save_text_to_file", [NoArgs EXCEPT !.keys = {"data"}, !.data = "a"]),
      Request("save_text_to_file",
              [NoArgs EXCEPT !.keys = {"data", "filename"}, !.data = "b",
                             !.filename = "notes.txt"]),
      Request("code_exec", [NoArgs EXCEPT !.keys = {"query"}, !.query = "q"]) }
    \cup { Request("code_exec", [NoArgs EXCEPT !.keys = {"code"}, !.code = p]) :
             p \in Programs }

\* Requests the dispatch has to reject.
OtherRequests ==
    { [Request("", NoArgs) EXCEPT !.fn = "absent", !.has_name = FALSE,
                                  !.args = "absent"],
      [Request("", NoArgs) EXCEPT !.has_name = FALSE],
      [Request("code_exec", NoArgs) EXCEPT !.args = "absent"],
      Request("translate", [NoArgs EXCEPT !.keys = {"query"}, !.query = "q"]) }

\* The requests of the sessions of Spec.  search_yf and wikipedia_lookup,
\* which differ from search_web by their provider only, are asked for in
\* the sessions of SpecStartup.
Requests ==
    { r \in RegisteredRequests : r.name \notin {"search_yf", "wikipedia_lookup"} }
    \cup OtherRequests

\* The sequences of at most n elements of S.
RECURSIVE SeqsUpTo(_, _)
SeqsUpTo(S, n) ==
    IF n = 0 THEN { <<>> }
    ELSE LET shorter == SeqsUpTo(S, n - 1)
         IN  shorter \cup { Append(q, x) : q \in shorter, x \in S }

\* The requests of a session in which the backend asks for code_exec, and
\* for one other tool.
CodeExecRequests ==
    { r \in RegisteredRequests :
        \/ /\ r.name = "code_exec"
           /\ r.keys = {"code"}
           /\ r.code # <<Raise("KeyboardInterrupt")>>
        \/ r.name = "search_web" /\ r.keys = {"query"} }
    \cup { Request("code_exec",
                   [NoArgs EXCEPT !.keys = {"code"}, !.code = <<PrintVar("y")>>]) }

\* The text of a response without tool calls: empty, or an answer.
FinalTexts == { <<>>, <<"<answer>">> }

(***************************************************************************)
(* main.py: the session                                                    *)
(***************************************************************************)

VARIABLES
    messages,        \* the list messages of main()
    pc,              \* "prompt": at input(); "call_agent": at call_agent();
                     \* "dispatch": in the for loop; "done": main() is left
    tool_calls,      \* tool_calls of the response being handled
    k,               \* how many of them execute_tool_call has handled
    exec_globals,    \* tools._EXEC_GLOBALS
    files,           \* the files of the working directory
    printed,         \* the last line written to the terminal
    session,         \* how main() was left: "running", "quit", "interrupted",
                     \* "error", "exited"
    raised_by,       \* what raised the exception that ended the session
    turns,           \* user messages appended so far
    model_calls,     \* call_agent() calls so far
    dispatched,      \* execute_tool_call() calls so far
    last,            \* what the last step did
    MODEL,           \* the global MODEL of main.py
    candidates,      \* the list candidates of main()
    probe_i,         \* the position of select_working_model in candidates
    probes           \* the calls of try_model_probe so far, with their results

\* What belongs to the start of the process.
startup_vars == <<MODEL, candidates, probe_i, probes>>

vars ==
    <<messages, pc, tool_calls, k, exec_globals, files, printed, session,
      raised_by, turns, model_calls, dispatched, last, MODEL, candidates,
      probe_i, probes>>

SYSTEM_PROMPT == <<"<system prompt>">>
BANNER == <<"Escribe tu consulta. (Escribe 'quit' para salir.)">>
INPUT_PROMPT == <<" > Inserte su consulta aqui: ">>
MODEL_WARNING == <<"[WARN] Ignorando MODEL de las variables de entorno">>
MODEL_HELP == <<"[ERROR] No se encontró ningún modelo válido.", "<sugerencias>">>
PROBE_FAILED == <<"-> probe falló", "NO disponible">>
TRACEBACK == <<"Traceback (most recent call last)">>
NO_ANSWER == <<"(sin respuesta del modelo)">>

system_message == [role |-> "system", content |-> SYSTEM_PROMPT]
user_message(text) == [role |-> "user", content |-> text]
assistant_message(text) == [role |-> "assistant", content |-> text]
tool_message(output) ==
    [role |-> "tool", content |-> output, tool_call_id |-> "dummy_id"]

NoStep == [op |-> "none", input |-> <<>>, ret |-> <<>>, exc |-> "none",
           invoked |-> "none", model |-> <<>>]

\* main() at its first prompt: a model has answered the probe, messages
\* holds the system message, tools._EXEC_GLOBALS is the empty dict of the
\* import, no file has been written.
Init ==
    /\ messages = <<system_message>>
    /\ pc = "prompt"
    /\ tool_calls = <<>>
    /\ k = 0
    /\ exec_globals = EMPTY_GLOBALS
    /\ files = NoFiles
    /\ printed = BANNER
    /\ session = "running"
    /\ raised_by = "none"
    /\ turns = 0
    /\ model_calls = 0
    /\ dispatched = 0
    /\ last = NoStep
    /\ MODEL = DEFAULT_MODEL
    /\ candidates = candidates_of(DEFAULT_MODEL)
    /\ probe_i = 1
    /\ probes = <<[name |-> DEFAULT_MODEL, ok |-> TRUE]>>

\* The except clauses of the outer loop, for an exception of class cls
\* raised inside the try: how main() is left.
outer_except(cls) ==
    CASE cls = "KeyboardInterrupt" -> "interrupted"
      [] caught_by_except_Exception(cls) -> "error"
      [] OTHER -> "exited"

\* What the except clause taken prints (nothing when none is taken).
outer_print(cls, before) ==
    CASE cls = "KeyboardInterrupt" -> <<"[Interrumpido por el usuario]">>
      [] caught_by_except_Exception(cls) -> <<"[ERROR]", cls, "<traceback>">>
      [] OTHER -> before

\* The text of a response with tool calls: none, or what the model says
\* while it asks.
RequestTexts == { <<>>, <<"<thinking>">> }

\* The responses of the backend, each with its tool_calls and its text, by
\* the number of requests they may hold: 1..n requests drawn from requests
\* and a text, or none and a text.
ResponsesWith(requests, max) ==
    [n \in 0..max |->
        { [tool_calls |-> b, content |-> t] :
            b \in SeqsUpTo(requests, n) \ { <<>> }, t \in RequestTexts }
        \cup { [tool_calls |-> <<>>, content |-> t] : t \in FinalTexts }]

Responses == ResponsesWith(Requests, MaxDispatch)
CodeExecResponses == ResponsesWith(CodeExecRequests, MaxCodeExec)

\* A branch of a response with tool calls that records the response.
tool_calls_branch_records_response(msgs, before, assistant_response) ==
    [messages |-> Append(msgs, assistant_message(assistant_response)),
     printed |-> IF assistant_response # <<>> THEN assistant_response
                                               ELSE before]

\* The branch of a response with tool calls, up to its for loop: the
\* response is neither appended nor printed.
tool_calls_branch(msgs, before, assistant_response) ==
    [messages |-> msgs, printed |-> before]

\* A final branch that appends the assistant message whatever the text.
final_answer_always_appends(msgs, assistant_response) ==
    [messages |-> Append(msgs, assistant_message(assistant_response)),
     printed |-> IF assistant_response # <<>> THEN assistant_response
                                               ELSE NO_ANSWER]

\* A final branch that keeps only the system prompt and the answer.
final_answer_trims_history(msgs, assistant_response) ==
    IF assistant_response # <<>>
    THEN [messages |-> <<msgs[1], assistant_message(assistant_response)>>,
          printed |-> assistant_response]
    ELSE [messages |-> msgs, printed |-> NO_ANSWER]

\* The branch of a response without tool calls: the text is printed and
\* appended when it is not empty, the indicator is printed otherwise.
final_answer(msgs, assistant_response) ==
    IF assistant_response # <<>>
    THEN [messages |-> Append(msgs, assistant_message(assistant_response)),
          printed |-> assistant_response]
    ELSE [messages |-> msgs, printed |-> NO_ANSWER]

\* An outer loop whose "except Exception" clause goes on with the next
\* prompt instead of leaving.
Leave_continues_on_error(cls, who, out) ==
    /\ pc' = IF outer_except(cls) = "error" THEN "prompt" ELSE "done"
    /\ session' = IF outer_except(cls) = "error" THEN "running"
                                                 ELSE outer_except(cls)
    /\ printed' = outer_print(cls, out)
    /\ raised_by' = who

\* main() is left with the exception cls, raised by who, out being the
\* last line printed before it.
Leave(cls, who, out) ==
    /\ pc' = "done"
    /\ session' = outer_except(cls)
    /\ printed' = outer_print(cls, out)
    /\ raised_by' = who

\* input(), strip(), the exit test and the append of the user message.
ReadInput ==
    /\ pc = "prompt"
    /\ \E raw \in RawInputs :
         LET user_input == strip(raw)
         IN  /\ last' = [NoStep EXCEPT !.op = "input", !.input = raw]
             /\ IF is_exit_input(user_input)
                THEN /\ pc' = "done"
                     /\ session' = "quit"
                     /\ UNCHANGED <<messages, turns>>
                ELSE /\ turns < MaxTurns
                     /\ messages' = Append(messages, user_message(user_input))
                     /\ pc' = "call_agent"
                     /\ turns' = turns + 1
                     /\ UNCHANGED session
    /\ printed' = INPUT_PROMPT
    /\ UNCHANGED <<tool_calls, k, exec_globals, files, raised_by, model_calls,
                   dispatched, startup_vars>>

\* call_agent(messages) returns one of responses, and the loop body handles
\* it.  The requests of a response fit in what the bound leaves.
CallAgentOn(responses, bound) ==
    /\ pc = "call_agent"
    /\ dispatched <= bound
    /\ \E response \in responses[bound - dispatched] :
         /\ tool_calls' = response.tool_calls
         /\ IF response.tool_calls # <<>>
            THEN LET r == tool_calls_branch(messages, printed,
                                            response.content)
                 IN  /\ messages' = r.messages
                     /\ printed' = r.printed
                     /\ pc' = "dispatch"
            ELSE LET r == final_answer(messages, response.content)
                 IN  /\ messages' = r.messages
                     /\ printed' = r.printed
                     /\ pc' = "prompt"
         /\ last' = [NoStep EXCEPT !.op = "model", !.ret = response.content,
                                   !.model = MODEL]
    /\ k' = 0
    /\ model_calls' = model_calls + 1
    /\ UNCHANGED <<exec_globals, files, session, raised_by, turns, dispatched,
                   startup_vars>>

CallAgent == CallAgentOn(Responses, MaxDispatch)

\* The same, with a backend that asks for code_exec.
CallAgentCodeExec == CallAgentOn(CodeExecResponses, MaxCodeExec)

\* ollama.chat raises: call_agent prints and re-raises, the outer loop
\* catches.
CallAgentRaises ==
    /\ pc = "call_agent"
    /\ Leave("ResponseError", "model", printed)
    /\ model_calls' = model_calls + 1
    /\ last' = [NoStep EXCEPT !.op = "model", !.exc = "ResponseError",
                              !.model = MODEL]
    /\ UNCHANGED <<messages, tool_calls, k, exec_globals, files, turns,
                   dispatched, startup_vars>>

\* One iteration of "for call in tool_calls", and the continue after the
\* last one.
Dispatch ==
    /\ pc = "dispatch"
    /\ \E outcome \in ProviderOutcomes :
         LET r == execute_tool_call(tool_calls[k + 1], exec_globals, files,
                                    outcome)
         IN  /\ exec_globals' = r.env
             /\ files' = r.fs
             /\ last' = [NoStep EXCEPT !.op = "dispatch", !.ret = r.ret,
                                       !.exc = r.exc, !.invoked = r.invoked]
             /\ IF r.exc = "none"
                THEN /\ messages' = Append(messages, tool_message(r.ret))
                     /\ pc' = IF k + 1 = Len(tool_calls) THEN "call_agent"
                                                         ELSE "dispatch"
                     /\ printed' = (IF r.out # <<>> THEN r.out ELSE printed)
                     /\ UNCHANGED <<session, raised_by>>
                ELSE /\ Leave(r.exc, "tool",
                              IF r.out # <<>> THEN r.out ELSE printed)
                     /\ UNCHANGED messages
    /\ k' = k + 1
    /\ dispatched' = dispatched + 1
    /\ UNCHANGED <<tool_calls, turns, model_calls, startup_vars>>

\* The user presses Ctrl-C while main() waits for input, for the backend or
\* for a tool.
Interrupt ==
    /\ pc \in {"prompt", "call_agent", "dispatch"}
    /\ Leave("KeyboardInterrupt", "user", printed)
    /\ last' = [NoStep EXCEPT !.op = "interrupt", !.exc = "KeyboardInterrupt"]
    /\ UNCHANGED <<messages, tool_calls, k, exec_globals, files, turns,
                   model_calls, dispatched, startup_vars>>

Next ==
    \/ ReadInput
    \/ CallAgent
    \/ CallAgentRaises
    \/ Dispatch
    \/ Interrupt

Spec == Init /\ [][Next]_vars

\* The sessions in which the backend asks for code_exec: fewer requests,
\* more of them in a session.
NextCodeExec ==
    \/ ReadInput
    \/ CallAgentCodeExec
    \/ CallAgentRaises
    \/ Dispatch
    \/ Interrupt

SpecCodeExec == Init /\ [][NextCodeExec]_vars

\* The sessions in which the backend asks for save_text_to_file, in a
\* working directory that may hold a file already.
SaveRequests ==
    { Request("save_text_to_file", [NoArgs EXCEPT !.keys = {"data"}, !.data = "b"]) }
    \cup { Request("save_text_to_file",
                   [NoArgs EXCEPT !.keys = {"data", "filename"}, !.data = d,
                                  !.filename = "notes.txt"]) :
             d \in {"a", "b"} }

SaveResponses == ResponsesWith(SaveRequests, MaxSaves)

CallAgentSave == CallAgentOn(SaveResponses, MaxSaves)

\* What the working directory holds when the process starts.
InitialFiles ==
    { NoFiles,
      [NoFiles EXCEPT !["notes.txt"] = [exists |-> TRUE, content |-> <<"z">>]] }

InitSave ==
    /\ messages = <<system_message>>
    /\ pc = "prompt"
    /\ tool_calls = <<>>
    /\ k = 0
    /\ exec_globals = EMPTY_GLOBALS
    /\ files \in InitialFiles
    /\ printed = BANNER
    /\ session = "running"
    /\ raised_by = "none"
    /\ turns = 0
    /\ model_calls = 0
    /\ dispatched = 0
    /\ last = NoStep
    /\ MODEL = DEFAULT_MODEL
    /\ candidates = candidates_of(DEFAULT_MODEL)
    /\ probe_i = 1
    /\ probes = <<[name |-> DEFAULT_MODEL, ok |-> TRUE]>>

NextSave ==
    \/ ReadInput
    \/ CallAgentSave
    \/ CallAgentRaises
    \/ Dispatch
    \/ Interrupt

SpecSave == InitSave /\ [][NextSave]_vars

(***************************************************************************)
(* main.py: the start of the process                                       *)
(***************************************************************************)

\* The process at line 18 of main.py: MODEL holds what the environment
\* gives, nothing else has run.
InitStartup ==
    /\ \E env \in EnvironValues : MODEL = os_environ_get(env)
    /\ candidates = <<>>
    /\ probe_i = 1
    /\ probes = <<>>
    /\ messages = <<>>
    /\ pc = "configure"
    /\ tool_calls = <<>>
    /\ k = 0
    /\ exec_globals = EMPTY_GLOBALS
    /\ files = NoFiles
    /\ printed = <<>>
    /\ session = "running"
    /\ raised_by = "none"
    /\ turns = 0
    /\ model_calls = 0
    /\ dispatched = 0
    /\ last = NoStep

\* What the start leaves alone.
session_vars ==
    <<messages, tool_calls, k, exec_globals, files, turns, model_calls,
      dispatched>>

\* The module level of main.py checks MODEL, and main() builds candidates.
Configure ==
    /\ pc = "configure"
    /\ IF _looks_like_model_name(MODEL)
       THEN UNCHANGED <<MODEL, printed>>
       ELSE MODEL' = DEFAULT_MODEL /\ printed' = MODEL_WARNING
    /\ candidates' = candidates_of(MODEL')
    /\ pc' = "select"
    /\ last' = [NoStep EXCEPT !.op = "configure", !.input = MODEL]
    /\ UNCHANGED <<probe_i, probes, session, raised_by, session_vars>>

\* select_working_model passes over a candidate: the continue.
SkipCandidate ==
    /\ pc = "select"
    /\ probe_i <= Len(candidates)
    /\ skips_candidate(candidates[probe_i], probes)
    /\ probe_i' = probe_i + 1
    /\ last' = [NoStep EXCEPT !.op = "skip", !.input = candidates[probe_i]]
    /\ UNCHANGED <<MODEL, candidates, probes, pc, printed, session, raised_by,
                   session_vars>>

\* select_working_model probes a candidate; ollama.chat answers or raises
\* an Exception.  On an answer main() adopts the candidate, prints the
\* banner and builds messages.
TryModelProbe ==
    /\ pc = "select"
    /\ probe_i <= Len(candidates)
    /\ ~skips_candidate(candidates[probe_i], probes)
    /\ \E ok \in BOOLEAN :
         /\ probes' = Append(probes, [name |-> candidates[probe_i], ok |-> ok])
         /\ last' = [NoStep EXCEPT !.op = "probe", !.model = candidates[probe_i],
                                   !.exc = IF ok THEN "none" ELSE "ResponseError"]
         /\ IF ok
            THEN /\ MODEL' = candidates[probe_i]
                 /\ printed' = BANNER
                 /\ messages' = <<system_message>>
                 /\ pc' = "prompt"
                 /\ UNCHANGED probe_i
            ELSE /\ printed' = PROBE_FAILED
                 /\ probe_i' = probe_i + 1
                 /\ UNCHANGED <<MODEL, messages, pc>>
    /\ UNCHANGED <<candidates, session, raised_by, tool_calls, k, exec_globals,
                   files, turns, model_calls, dispatched>>

\* select_working_model returns None: print_model_help and sys.exit(1).
NoWorkingModel ==
    /\ pc = "select"
    /\ probe_i > Len(candidates)
    /\ printed' = MODEL_HELP
    /\ pc' = "done"
    /\ session' = "sys.exit(1)"
    /\ last' = [NoStep EXCEPT !.op = "exit", !.exc = "SystemExit"]
    /\ UNCHANGED <<startup_vars, raised_by, session_vars>>

\* The user presses Ctrl-C while select_working_model runs: try_model_probe
\* catches Exception only, and main() calls select_working_model before its
\* try, so the KeyboardInterrupt leaves main() and the interpreter prints
\* the traceback.
InterruptProbe ==
    /\ pc = "select"
    /\ pc' = "done"
    /\ ~caught_by_except_Exception("KeyboardInterrupt")
    /\ session' = "uncaught"
    /\ printed' = TRACEBACK
    /\ raised_by' = "user"
    /\ last' = [NoStep EXCEPT !.op = "interrupt", !.exc = "KeyboardInterrupt"]
    /\ UNCHANGED <<startup_vars, session_vars>>

\* The requests of the sessions that are followed from the start of the
\* process: the three searches.
StartupRequests ==
    { r \in RegisteredRequests :
        r.name \in {"search_web", "search_yf", "wikipedia_lookup"} }

StartupResponses == ResponsesWith(StartupRequests, MaxSearches)

CallAgentStartup == CallAgentOn(StartupResponses, MaxSearches)

NextStartup ==
    \/ Configure
    \/ SkipCandidate
    \/ TryModelProbe
    \/ NoWorkingModel
    \/ InterruptProbe
    \/ ReadInput
    \/ CallAgentStartup
    \/ CallAgentRaises
    \/ Dispatch
    \/ Interrupt

SpecStartup == InitStartup /\ [][NextStartup]_vars

(***************************************************************************)
(* Properties                                                              *)
(***************************************************************************)

\* The request the last Dispatch step handed to execute_tool_call.
LastCall == tool_calls[k]
Dispatched == last.op = "dispatch"

\* The request has the shape execute_tool_call reads: a "function" mapping
\* with a name and arguments.
WellFormed(call) ==
    call.fn = "record" /\ call.has_name /\ call.args # "absent"

\* The request lacks the "function" key, or its mapping lacks "name" or
\* "arguments".
LacksField(call) ==
    \/ call.fn = "absent"
    \/ call.fn = "record" /\ (~call.has_name \/ call.args = "absent")

\* The last message of the history is the tool message carrying text.
LastMessageIsTool(text) ==
    /\ Len(messages) >= 1
    /\ messages[Len(messages)] = tool_message(text)

\* C1: every failure of a dispatched tool call (malformed request, unknown
\* tool, exception inside the tool) is recovered: execute_tool_call returns
\* a string, the string is appended as a tool message, the session goes on
\* with the next request or the next model call.
C1_ToolFailureRecovered ==
    Dispatched =>
        /\ last.exc = "none"
        /\ session = "running"
        /\ pc \in {"dispatch", "call_agent"}
        /\ LastMessageIsTool(last.ret)

\* C2: a request that lacks "function", "name" or "arguments" gets the fixed
\* malformed-call string as its tool message; no tool runs and no exception
\* reaches the loop.
C2_MalformedCall ==
    (Dispatched /\ LacksField(LastCall)) =>
        /\ last.ret = ERR_MALFORMED
        /\ last.exc = "none"
        /\ last.invoked = "none"
        /\ session = "running"
        /\ LastMessageIsTool(ERR_MALFORMED)

C2_Witness ==
    /\ Dispatched
    /\ LastCall.fn = "record"
    /\ LastCall.has_name
    /\ LastCall.args = "absent"
    /\ LastMessageIsTool(ERR_MALFORMED)

\* C3: every name advertised in TOOL_SPECS has an implementation in
\* TOOL_FUNCS, and a well-formed request for a name that has none gets the
\* "no implementation" string naming it; no tool runs and nothing is raised.
C3_Registry ==
    /\ \A i \in 1..Len(TOOL_SPECS) : TOOL_FUNCS_get(TOOL_SPECS[i]) = TOOL_SPECS[i]
    /\ (Dispatched /\ WellFormed(LastCall) /\ LastCall.name \notin TOOL_FUNCS) =>
           /\ last.ret = err_no_impl(LastCall.name)
           /\ last.exc = "none"
           /\ last.invoked = "none"
           /\ session = "running"
           /\ LastMessageIsTool(err_no_impl(LastCall.name))

C3_Witness ==
    /\ Dispatched
    /\ WellFormed(LastCall)
    /\ LastCall.name = "translate"
    /\ LastMessageIsTool(err_no_impl("translate"))

\* C4: the N requests of one response are all dispatched, in order, N tool
\* messages are appended in that order, and then one model call follows:
\* unless the user interrupts, the for loop over a response is left only
\* with every request handled, its N tool messages at the end of the
\* history, and the session at the next model call.
C4_AllDispatchedInOrder ==
    (tool_calls # <<>> /\ pc # "dispatch" /\ raised_by # "user") =>
        /\ k = Len(tool_calls)
        /\ raised_by # "tool"
        /\ Len(messages) > Len(tool_calls)
        /\ \A i \in 1..Len(tool_calls) :
               messages[Len(messages) - Len(tool_calls) + i].role = "tool"

\* s is a prefix of t.
IsPrefix(s, t) == Len(s) <= Len(t) /\ SubSeq(t, 1, Len(s)) = s

\* C5: the history is never empty, its first message is the system prompt,
\* and every step leaves the messages it had in place, adding only at the
\* end.
C5_HistoryAppendOnly ==
    /\ [](Len(messages) >= 1 /\ messages[1] = system_message)
    /\ [][IsPrefix(messages, messages')]_vars

C5_Witness ==
    /\ pc = "done"
    /\ session = "interrupted"
    /\ Len(messages) >= 5
    /\ messages[Len(messages)].role = "assistant"
    /\ \E i, j \in 1..Len(messages) :
           messages[i].role = "tool" /\ messages[j].role = "assistant"

\* The step is the handling of a response without tool calls.
FinalResponseStep ==
    /\ pc = "call_agent"
    /\ last'.op = "model"
    /\ last'.exc = "none"
    /\ tool_calls' = <<>>

\* C6: a response with no tool calls and empty text leaves the history as it
\* was, prints the "no answer" indicator and returns to the prompt; with a
\* text, the text is printed and appended as one assistant message.
C6_FinalAnswer ==
    [][FinalResponseStep =>
          /\ pc' = "prompt"
          /\ IF last'.ret = <<>>
             THEN messages' = messages /\ printed' = NO_ANSWER
             ELSE /\ messages' = Append(messages, assistant_message(last'.ret))
                  /\ printed' = last'.ret]_vars

C6_Witness ==
    /\ last.op = "model"
    /\ last.exc = "none"
    /\ last.ret = <<>>
    /\ tool_calls = <<>>
    /\ pc = "prompt"
    /\ printed = NO_ANSWER
    /\ messages[Len(messages)].role = "tool"

\* The lines that are empty after trimming, or "quit" or "exit" in some
\* letter case.
C7_ExitLines ==
    { <<>>,
      <<" ", "\t">>,
      <<"q", "u", "i", "t">>,
      <<" ", "E", "x", "I", "T", "\n">> }

\* C7: on such a line the session ends at once: no model call, no tool
\* dispatch, nothing appended to the history.
C7_ExitInput ==
    [][(pc = "prompt" /\ last'.op = "input" /\ last'.input \in C7_ExitLines) =>
          /\ pc' = "done"
          /\ session' = "quit"
          /\ messages' = messages
          /\ model_calls' = model_calls
          /\ dispatched' = dispatched]_vars

C7_Witness ==
    /\ last.op = "input"
    /\ last.input = <<" ", "E", "x", "I", "T", "\n">>
    /\ session = "quit"
    /\ pc = "done"
    /\ turns >= 1

\* C8: a failure of the backend call, on the first call of a turn or on a
\* follow-up call, reaches the outer loop and ends the session; no step
\* (prompt, model call, tool dispatch) follows the end of the session.
C8_BackendFailureEndsSession ==
    /\ []((last.op = "model" /\ last.exc # "none") =>
             pc = "done" /\ session = "error" /\ raised_by = "model")
    /\ [][session = "running"]_vars

C8_Witness ==
    /\ last.op = "model"
    /\ last.exc # "none"
    /\ session = "error"
    /\ k >= 1
    /\ k = Len(tool_calls)

\* Names that submitted code binds.
UserNames == {"x", "y"}

\* The step runs the body of code_exec on the program code.
CodeExecStep(code) ==
    /\ pc = "dispatch"
    /\ last'.op = "dispatch"
    /\ last'.invoked = "code_exec"
    /\ tool_calls[k + 1].code = code

\* C9: the environment of code_exec persists: no step unbinds a name that
\* submitted code has bound, failing runs included; only code_exec changes
\* the bindings; and a later print(x) returns the value x was left with.
C9_EnvironmentPersists ==
    [][/\ \A n \in UserNames :
              exec_globals[n] # UNBOUND => exec_globals'[n] # UNBOUND
       /\ last'.invoked # "code_exec" =>
              \A n \in UserNames : exec_globals'[n] = exec_globals[n]
       /\ (CodeExecStep(<<PrintVar("x")>>) /\ exec_globals["x"] # UNBOUND) =>
              last'.ret = <<exec_globals["x"]>>]_vars

\* x bound by one call, a later call failing after binding y, and a third
\* call printing x.
C9_Witness ==
    /\ Dispatched
    /\ last.invoked = "code_exec"
    /\ Len(messages) >= 4
    /\ messages[Len(messages) - 2] = tool_message(<<>>)
    /\ messages[Len(messages) - 1] =
           tool_message(<<"Error:", "ValueError", "<traceback>">>)
    /\ messages[Len(messages)] = tool_message(<<"1">>)
    /\ exec_globals["y"] = "1"

\* C10: whatever the submitted code raises, process-exit and interrupt
\* exceptions included, code_exec catches it and returns the output with
\* the error text; nothing is raised to the caller and the loop goes on.
C10_CodeExecNeverRaises ==
    (Dispatched /\ last.invoked = "code_exec") =>
        /\ last.exc = "none"
        /\ session = "running"
        /\ pc \in {"dispatch", "call_agent"}

\* The file a save_text_to_file request names, the default when it names
\* none.
FileOf(call) ==
    IF "filename" \in call.keys THEN call.filename ELSE DEFAULT_FILENAME

\* The step hands a request with its data to save_text_to_file.
SaveStep ==
    /\ pc = "dispatch"
    /\ last'.op = "dispatch"
    /\ WellFormed(tool_calls[k + 1])
    /\ tool_calls[k + 1].name = "save_text_to_file"
    /\ "data" \in tool_calls[k + 1].keys

\* C11: save_text_to_file appends and never overwrites: a call that
\* succeeds leaves in the file it names (research_output.txt when it names
\* none) what the file held followed by its data, creates the file when it
\* was absent, leaves the other files alone and returns the confirmation
\* naming the file; a call that fails leaves every file as it was; and no
\* step of a session removes a file or anything a file holds.
C11_SaveAppends ==
    [][/\ \A f \in FileNames :
             /\ files[f].exists => files'[f].exists
             /\ IsPrefix(files[f].content, files'[f].content)
       /\ SaveStep =>
             LET call == tool_calls[k + 1]
                 f == FileOf(call)
             IN  \/ /\ last'.ret = <<"Data successfully saved to", f>>
                    /\ files'[f].exists
                    /\ files'[f].content = files[f].content \o <<call.data>>
                    /\ \A g \in FileNames \ {f} : files'[g] = files[g]
                 \/ /\ last'.ret = err_executing("save_text_to_file", "OSError")
                    /\ files' = files]_vars

\* A file that held "z" holds "z", "b", "a" after two saves, and the file
\* of the default name has been created by a third.
C11_Witness ==
    /\ Dispatched
    /\ files["notes.txt"].content = <<"z", "b", "a">>
    /\ files[DEFAULT_FILENAME] = [exists |-> TRUE, content |-> <<"b">>]
    /\ last.ret = <<"Data successfully saved to", DEFAULT_FILENAME>>


\* The non-empty elements of s, each at its first place only.
RECURSIVE FirstOccurrences(_)
FirstOccurrences(s) ==
    IF s = <<>> THEN <<>>
    ELSE LET front == SubSeq(s, 1, Len(s) - 1)
             x == s[Len(s)]
             kept == FirstOccurrences(front)
         IN  IF x = <<>> \/ \E i \in 1..Len(front) : front[i] = x
             THEN kept
             ELSE Append(kept, x)

\* Every probe made so far has failed, and none is left to make.
AllProbesFailed ==
    /\ pc # "configure"
    /\ Len(probes) = Len(FirstOccurrences(candidates))
    /\ \A i \in 1..Len(probes) : ~probes[i].ok

\* C12: the candidates are probed in the order of the list, each distinct
\* non-empty one at most once; no candidate is probed after one has
\* answered; the session runs only with the candidate that answered, and
\* every model call of a turn names it; when every probe has failed the
\* process prints the guidance and exits with status 1, and no prompt, model
\* call or dispatch has taken place.
C12_ModelSelection ==
    LET order == FirstOccurrences(candidates)
        n == Len(probes)
    IN  /\ n <= Len(order)
        /\ \A i \in 1..n : probes[i].name = order[i]
        /\ \A i \in 1..(n - 1) : ~probes[i].ok
        /\ (pc = "select" /\ n > 0) => ~probes[n].ok
        /\ (pc \in {"prompt", "call_agent", "dispatch"} \/ turns > 0
              \/ model_calls > 0 \/ last.op = "input") =>
               /\ n > 0
               /\ probes[n].ok
               /\ MODEL = probes[n].name
        /\ (last.op = "model") => (n > 0 /\ last.model = probes[n].name)
        /\ session = "sys.exit(1)" => AllProbesFailed
        /\ AllProbesFailed =>
               /\ turns = 0 /\ model_calls = 0 /\ dispatched = 0
               /\ messages = <<>>
               /\ pc \in {"select", "done"}
               /\ (pc = "done" /\ raised_by # "user") =>
                      session = "sys.exit(1)" /\ printed = MODEL_HELP

\* MODEL is the default, which the list names twice: the first probe fails,
\* the second is of the third entry and answers, and a model call of a turn
\* names that entry.
C12_Witness ==
    /\ candidates = candidates_of(QWEN3_8B)
    /\ probes = <<[name |-> QWEN3_8B, ok |-> FALSE],
                  [name |-> DEEPSEEK_R1_8B, ok |-> TRUE]>>
    /\ last.op = "model"
    /\ last.model = DEEPSEEK_R1_8B
    /\ tool_calls # <<>>


\* C13: a Ctrl-C of the user, wherever it strikes (at the prompt, during a
\* model call, during a tool call, during the probes of the start), is
\* caught by the outermost handler of main(): the session is left as
\* interrupted with the notice printed, and nothing runs afterwards.
C13_InterruptEndsCleanly ==
    raised_by = "user" =>
        /\ pc = "done"
        /\ session = "interrupted"
        /\ printed = <<"[Interrumpido por el usuario]">>


\* The request names a registered tool and lacks an argument that the
\* TOOL_SPECS entry of the tool requires.
LacksRequired(call) ==
    /\ WellFormed(call)
    /\ call.name \in TOOL_FUNCS
    /\ ~(TOOL_SPECS_required(call.name) \subseteq call.keys)

\* C14: a request for a registered tool that lacks a required argument
\* never runs the body of the tool: execute_tool_call returns an error
\* string, which becomes the tool message of the request, and the session
\* goes on.
C14_MissingArgument ==
    (Dispatched /\ LacksRequired(LastCall)) =>
        /\ last.invoked = "none"
        /\ last.exc = "none"
        /\ last.ret = err_executing(LastCall.name, "TypeError")
        /\ LastMessageIsTool(last.ret)
        /\ session = "running"

\* code_exec is asked for without "code".
C14_Witness ==
    /\ Dispatched
    /\ LastCall.fn = "record"
    /\ LastCall.name = "code_exec"
    /\ LastCall.args = "map"
    /\ "code" \notin LastCall.keys
    /\ last.invoked = "none"
    /\ LastMessageIsTool(err_executing("code_exec", "TypeError"))


\* The identifier is not empty, is not made of digits only, and has no
\* slash, backslash or space.
Acceptable(name) ==
    /\ Len(name) > 0
    /\ \E i \in 1..Len(name) : name[i] \notin Digits
    /\ \A i \in 1..Len(name) : name[i] \notin {"/", "\\", " "}

\* C15: the identifier of the environment is kept exactly when it is
\* acceptable, the default replaces it otherwise, and from then on the
\* identifier in use is always acceptable.
C15_ModelIdentifier ==
    /\ [](pc # "configure" => Acceptable(MODEL))
    /\ [][pc = "configure" =>
             MODEL' = IF Acceptable(MODEL) THEN MODEL ELSE DEFAULT_MODEL]_vars

\* The environment gives "12": the default is in use and the warning has
\* been printed.
C15_Witness ==
    /\ last.op = "configure"
    /\ last.input = <<"1", "2">>
    /\ MODEL = DEFAULT_MODEL
    /\ printed = MODEL_WARNING


\* C16: a turn alternates model calls and dispatches without a bound of
\* its own: every response with tool calls is followed by another model
\* call, and a turn that has begun is over only at the prompt, after a
\* response without tool calls, or with the session ended by a failure of
\* the backend or by the user.
C16_TurnEndsWithFinalAnswer ==
    (turns > 0 /\ pc \notin {"call_agent", "dispatch"}) =>
        \/ pc = "prompt" /\ last.op = "model" /\ tool_calls = <<>>
        \/ pc = "done" /\ session = "quit" /\ tool_calls = <<>>
        \/ pc = "done" /\ raised_by \in {"model", "user"}


\* C17: every tool message of the history has a str as content, whatever
\* the tool returned, and the fixed tool_call_id "dummy_id"; it has no
\* other field.
C17_ToolMessages ==
    \A i \in 1..Len(messages) :
        messages[i].role = "tool" =>
            /\ DOMAIN messages[i] = {"role", "content", "tool_call_id"}
            /\ isinstance_str(messages[i].content)
            /\ messages[i].tool_call_id = "dummy_id"

\* search_web has returned a list, and the tool message holds its printed
\* form.
C17_Witness ==
    /\ Dispatched
    /\ last.invoked = "search_web"
    /\ LastMessageIsTool(<<"<repr of list>", "<news>", "q">>)


\* C18: a response that asks for tools is not recorded: the step that
\* receives it appends nothing and prints nothing, whatever text it
\* carries; so every assistant message of the history has a text that is
\* not empty and ends a turn, and the message before a tool message is the
\* user message or another tool message.
C18_RequestsNotRecorded ==
    /\ [][(last'.op = "model" /\ last'.exc = "none" /\ tool_calls' # <<>>) =>
             (messages' = messages /\ printed' = printed)]_vars
    /\ [](\A i \in 1..Len(messages) :
             /\ messages[i].role = "assistant" =>
                    /\ messages[i].content # <<>>
                    /\ (i < Len(messages) => messages[i + 1].role = "user")
             /\ messages[i].role = "tool" =>
                    (i > 1 /\ messages[i - 1].role \in {"user", "tool"}))

\* After a tool message, the model has said something while asking for
\* another tool: the history ends with the tool message, and the terminal
\* shows the line of the tool.
C18_Witness ==
    /\ last.op = "model"
    /\ last.ret = <<"<thinking>">>
    /\ tool_calls # <<>>
    /\ pc = "dispatch"
    /\ Len(messages) = 3
    /\ messages[3].role = "tool"
    /\ printed = msg_executing("search_web")


\* The program that binds y, raises, and would have bound x.
FailsPartWay == <<Bind("y", "1"), Raise("ValueError"), Bind("x", "2")>>

\* C19: a code_exec run that fails part-way is not rolled back: what it
\* bound before the exception is in the environment after the call (and
\* what follows the exception has not run), stays there, and a later call
\* that prints the name gets the value.
C19_PartialEffectsPersist ==
    [][/\ CodeExecStep(FailsPartWay) =>
             /\ last'.ret = <<"Error:", "ValueError", "<traceback>">>
             /\ exec_globals'["y"] = "1"
             /\ exec_globals'["x"] = exec_globals["x"]
       /\ exec_globals["y"] # UNBOUND => exec_globals'["y"] = exec_globals["y"]
       /\ (CodeExecStep(<<PrintVar("y")>>) /\ exec_globals["y"] # UNBOUND) =>
             last'.ret = <<exec_globals["y"]>>]_vars

\* The first call fails after binding y, a call of another tool follows,
\* and a third call prints y; x was never bound.
C19_Witness ==
    /\ Dispatched
    /\ LastCall.code = <<PrintVar("y")>>
    /\ last.invoked = "code_exec"
    /\ last.ret = <<"1">>
    /\ exec_globals["x"] = UNBOUND
    /\ Len(messages) = 5
    /\ messages[3] = tool_message(<<"Error:", "ValueError", "<traceback>">>)
    /\ messages[4] = tool_message(<<"<news>", "q">>)


\* The request is one execute_tool_call rejects before it has a function to
\* call: it is malformed, or it names a tool that is not registered.
Rejected(call) ==
    \/ LacksField(call)
    \/ WellFormed(call) /\ call.name \notin TOOL_FUNCS

\* C20: the dispatch of a rejected request has no effect but its error
\* string: no tool is invoked, nothing is printed, the environment of
\* code_exec and the files are as they were, and the history grows by the
\* tool message that carries the string.
C20_RejectedHasNoEffect ==
    [][(pc = "dispatch" /\ last'.op = "dispatch"
            /\ Rejected(tool_calls[k + 1])) =>
          /\ last'.invoked = "none"
          /\ last'.exc = "none"
          /\ last'.ret = (IF LacksField(tool_calls[k + 1])
                          THEN ERR_MALFORMED
                          ELSE err_no_impl(tool_calls[k + 1].name))
          /\ exec_globals' = exec_globals
          /\ files' = files
          /\ printed' = printed
          /\ messages' = Append(messages, tool_message(last'.ret))
          /\ session' = session]_vars

\* A request for the unregistered "translate" is rejected in a session
\* that has already run code_exec.
C20_Witness ==
    /\ Dispatched
    /\ LastCall.name = "translate"
    /\ last.invoked = "none"
    /\ exec_globals["x"] = "1"
    /\ exec_globals["pd"] # UNBOUND

====
